---------------------------- MODULE Spec2Model ----------------------------
(***************************************************************************)
(* A model of ping-tool.py: discovery of candidate files, the line parser  *)
(* and statistics of analyze_ping_file, the report of generate_markdown    *)
(* and the orchestration and exit status of main.                          *)
(*                                                                         *)
(* Two specifications share the definitions:                               *)
(*   Spec         main() run over a small file system and argument list;   *)
(*   SpecAnalyze  analyze_ping_file() stepped line by line over every file *)
(*                of at most MaxLines lines drawn from LineUniverse.       *)
(*                                                                         *)
(* Reading a file may fail at any open (sniffing or parsing): the failure  *)
(* is a choice of the environment at each read.  The header line's target  *)
(* (lines 18-26) and the formatting of the table's numbers are left out.   *)
(***************************************************************************)
EXTENDS Integers, Sequences, FiniteSets, TLC

(***************************************************************************)
(* Bounds of the model.                                                    *)
(***************************************************************************)
\* Longest file, in lines, that SpecAnalyze parses.
MaxLines == 3
\* Longest argument list of main (sys.argv[1:]).
MaxArgs == 2
\* Width in bits of the significand of a float.  Python floats are IEEE-754
\* binary64 (53 bits); the model keeps the arithmetic (every operation is the
\* exact result rounded to nearest, ties to even) at a width TLC's 32-bit
\* integers can carry.
Precision == 5

(***************************************************************************)
(* Floating point.  A float is [m |-> significand, e |-> exponent], the    *)
(* number m * 2^e, with m = 0 or 2^(Precision-1) <= |m| < 2^Precision.     *)
(***************************************************************************)
RECURSIVE Pow2(_)
Pow2(k) == IF k <= 0 THEN 1 ELSE 2 * Pow2(k - 1)

Abs(x) == IF x < 0 THEN -x ELSE x

\* a / (d * 2^e) as a fraction of naturals <<numerator, denominator>>.
Scaled(a, d, e) == IF e >= 0 THEN <<a, d * Pow2(e)>> ELSE <<a * Pow2(-e), d>>

\* The exponent e with 2^(Precision-1) <= a / (d * 2^e) < 2^Precision, a > 0.
RECURSIVE FindExp(_, _, _)
FindExp(a, d, e) ==
    LET s == Scaled(a, d, e)
    IN  IF s[1] >= s[2] * Pow2(Precision) THEN FindExp(a, d, e + 1)
        ELSE IF s[1] < s[2] * Pow2(Precision - 1) THEN FindExp(a, d, e - 1)
        ELSE e

\* The float nearest to the fraction n / d (d > 0), ties to even: the result
\* of every float operation and of float("<digits>").
RoundRat(n, d) ==
    IF n = 0 THEN [m |-> 0, e |-> 0]
    ELSE LET a    == Abs(n)
             e    == FindExp(a, d, 0)
             s    == Scaled(a, d, e)
             q    == s[1] \div s[2]
             r    == s[1] % s[2]
             up   == (2 * r > s[2]) \/ (2 * r = s[2] /\ q % 2 = 1)
             mag  == IF up THEN q + 1 ELSE q
             sign == IF n < 0 THEN -1 ELSE 1
         IN  IF mag = Pow2(Precision)
             THEN [m |-> sign * Pow2(Precision - 1), e |-> e + 1]
             ELSE [m |-> sign * mag, e |-> e]

\* The exact value of a float as a fraction <<numerator, denominator>>.
Rat(x) == IF x.e >= 0 THEN <<x.m * Pow2(x.e), 1>> ELSE <<x.m, Pow2(-x.e)>>

\* float(n) of an int, and of a string of digits.
IntToFloat(n) == RoundRat(n, 1)

FAdd(x, y) == RoundRat(Rat(x)[1] * Rat(y)[2] + Rat(y)[1] * Rat(x)[2], Rat(x)[2] * Rat(y)[2])
FSub(x, y) == RoundRat(Rat(x)[1] * Rat(y)[2] - Rat(y)[1] * Rat(x)[2], Rat(x)[2] * Rat(y)[2])
FMul(x, y) == RoundRat(Rat(x)[1] * Rat(y)[1], Rat(x)[2] * Rat(y)[2])
\* x / n for a float x and an int n > 0.
FDivInt(x, n) == RoundRat(Rat(x)[1], Rat(x)[2] * n)
FAbs(x) == [m |-> Abs(x.m), e |-> x.e]
FLe(x, y) == Rat(x)[1] * Rat(y)[2] <= Rat(y)[1] * Rat(x)[2]
FZero == [m |-> 0, e |-> 0]

\* min(xs), max(xs) and sum(xs) of a list of floats; sum adds left to right
\* from 0.
RECURSIVE FMin(_)
FMin(xs) == IF Len(xs) = 1 THEN xs[1]
            ELSE LET t == FMin(Tail(xs)) IN IF FLe(xs[1], t) THEN xs[1] ELSE t
RECURSIVE FMax(_)
FMax(xs) == IF Len(xs) = 1 THEN xs[1]
            ELSE LET t == FMax(Tail(xs)) IN IF FLe(t, xs[1]) THEN xs[1] ELSE t
RECURSIVE FSumFrom(_, _)
FSumFrom(acc, xs) == IF xs = <<>> THEN acc ELSE FSumFrom(FAdd(acc, xs[1]), Tail(xs))
FSum(xs) == FSumFrom(FZero, xs)


(***************************************************************************)
(* Text.  A line is a sequence of tokens [k |-> kind, v |-> value]:        *)
(*   "ws"        white space                                               *)
(*   "word"      any other text ("64 bytes from", "Request timeout", ...)  *)
(*   "ping"      the text "PING"                                           *)
(*   "ts"        "[v.0]", a bracketed time stamp of v seconds              *)
(*   "seq"       "icmp_seq=v"                                              *)
(*   "seq_bare"  "icmp_seq=" followed by no digit                          *)
(*   "time"      "time=v"                                                  *)
(*   "time_bare" "time=" followed by no digit                              *)
(* An optional value (a regex match, None) is <<>> or <<value>>.           *)
(***************************************************************************)
Tok(k, v) == [k |-> k, v |-> v]
Ws == Tok("ws", 0)
Word == Tok("word", 0)
PingWord == Tok("ping", 0)

\* not line.strip()
IsBlank(line) == \A j \in 1..Len(line) : line[j].k = "ws"

\* The index of the first token of a kind in kinds, 0 when there is none.
RECURSIVE FirstOf(_, _, _)
FirstOf(line, kinds, j) ==
    IF j > Len(line) THEN 0
    ELSE IF line[j].k \in kinds THEN j
    ELSE FirstOf(line, kinds, j + 1)

\* 'icmp_seq=' in line
\* (mutant: line.startswith('icmp_seq='))
ContainsIcmpSeq_AtLineStart(line) == Len(line) > 0 /\ line[1].k \in {"seq", "seq_bare"}
ContainsIcmpSeq(line) == FirstOf(line, {"seq", "seq_bare"}, 1) # 0

\* re.search(r'^\[(\d+\.\d+)\]', line): anchored at the start of the line.
\* (mutant: the pattern without its "^")
TsMatch_Unanchored(line) ==
    LET j == FirstOf(line, {"ts"}, 1) IN IF j = 0 THEN <<>> ELSE <<line[j].v>>
TsMatch(line) ==
    IF Len(line) > 0 /\ line[1].k = "ts" THEN <<line[1].v>> ELSE <<>>

\* re.search(r'icmp_seq=(\d+)', line)
SeqMatch(line) ==
    LET j == FirstOf(line, {"seq"}, 1) IN IF j = 0 THEN <<>> ELSE <<line[j].v>>

\* re.search(r'time=(\d+\.?\d*)', line)
TimeMatch(line) ==
    LET j == FirstOf(line, {"time"}, 1) IN IF j = 0 THEN <<>> ELSE <<line[j].v>>

\* any(re.search(r'^\[\d+\.\d+\]', line) for line in lines if line.strip())
HasTimestamps(lines) ==
    \E j \in 1..Len(lines) : ~IsBlank(lines[j]) /\ TsMatch(lines[j]) # <<>>

(***************************************************************************)
(* analyze_ping_file: the accumulators of the parsing loop, one line's     *)
(* step, the statistics and the time range.                                *)
(***************************************************************************)
EmptyAcc ==
    [ping_times |-> <<>>, timestamps |-> <<>>, sequences |-> <<>>, total_pings |-> 0]

\* (mutant: the counter raised only where a sample is taken)
LineStep_CountsSamplesOnly(acc, line, has_timestamps) ==
    IF IsBlank(line) THEN acc
    ELSE LET both == SeqMatch(line) # <<>> /\ TimeMatch(line) # <<>>
         IN  [ping_times  |-> IF both THEN Append(acc.ping_times, IntToFloat(TimeMatch(line)[1]))
                              ELSE acc.ping_times,
              sequences   |-> IF both THEN Append(acc.sequences, SeqMatch(line)[1])
                              ELSE acc.sequences,
              timestamps  |-> IF has_timestamps /\ TsMatch(line) # <<>>
                              THEN Append(acc.timestamps, IntToFloat(TsMatch(line)[1]))
                              ELSE acc.timestamps,
              total_pings |-> IF both THEN acc.total_pings + 1 ELSE acc.total_pings]

\* The body of "for line in lines" for one line.
LineStep(acc, line, has_timestamps) ==
    IF IsBlank(line) THEN acc
    ELSE LET total == IF ContainsIcmpSeq(line) THEN acc.total_pings + 1
                      ELSE acc.total_pings
             ts    == IF has_timestamps /\ TsMatch(line) # <<>>
                      THEN Append(acc.timestamps, IntToFloat(TsMatch(line)[1]))
                      ELSE acc.timestamps
             both  == SeqMatch(line) # <<>> /\ TimeMatch(line) # <<>>
         IN  [ping_times  |-> IF both THEN Append(acc.ping_times, IntToFloat(TimeMatch(line)[1]))
                              ELSE acc.ping_times,
              sequences   |-> IF both THEN Append(acc.sequences, SeqMatch(line)[1])
                              ELSE acc.sequences,
              timestamps  |-> ts,
              total_pings |-> total]

\* ((total_pings - len(ping_times)) / total_pings) * 100, 0 when total_pings = 0.
PacketLoss(total_pings, n) ==
    IF total_pings > 0
    THEN FMul(RoundRat(total_pings - n, total_pings), IntToFloat(100))
    ELSE FZero

\* sum(ping_times) / len(ping_times)
Average(xs) == IF xs = <<>> THEN FZero ELSE FDivInt(FSum(xs), Len(xs))

\* sum(abs(t - avg_time) for t in ping_times) / len(ping_times)
MeanDeviation(xs) ==
    IF xs = <<>> THEN FZero
    ELSE LET avg == Average(xs)
         IN  FDivInt(FSum([j \in 1..Len(xs) |-> FAbs(FSub(xs[j], avg))]), Len(xs))

\* The stats dictionary.
Stats(acc) ==
    [min         |-> IF acc.ping_times = <<>> THEN FZero ELSE FMin(acc.ping_times),
     max         |-> IF acc.ping_times = <<>> THEN FZero ELSE FMax(acc.ping_times),
     avg         |-> Average(acc.ping_times),
     mdev        |-> MeanDeviation(acc.ping_times),
     total_pings |-> acc.total_pings,
     packet_loss |-> PacketLoss(acc.total_pings, Len(acc.ping_times))]

(***************************************************************************)
(* datetime.fromtimestamp: local time.  A time zone is                     *)
(* [at, before, after]: the UTC offset is `before` up to the instant `at`  *)
(* and `after` from it on.  A naive datetime is its wall-clock reading     *)
(* [wall, fold]; naive datetimes compare by wall alone.                    *)
(***************************************************************************)
\* The largest wall-clock reading a datetime holds (9999-12-31 23:59:59).
MaxDatetime == 15

Seconds(t) == Rat(t)[1] \div Rat(t)[2]

UtcOffset(secs, tz) == IF secs < tz.at THEN tz.before ELSE tz.after

FromTimestamp(t, tz) ==
    [wall |-> Seconds(t) + UtcOffset(Seconds(t), tz),
     fold |-> IF Seconds(t) >= tz.at /\ Seconds(t) < tz.at + (tz.before - tz.after)
              THEN 1 ELSE 0]

\* fromtimestamp raises ValueError / OverflowError for a year past 9999.
FromTimestampRaises(t, tz) == Seconds(t) + UtcOffset(Seconds(t), tz) > MaxDatetime

\* Lines 86-90: whether computing the time range raises, and its value.
TimeRangeRaises(acc, tz) ==
    /\ acc.timestamps # <<>>
    /\ \/ FromTimestampRaises(FMin(acc.timestamps), tz)
       \/ FromTimestampRaises(FMax(acc.timestamps), tz)

TimeRange(acc, tz) ==
    IF acc.timestamps = <<>> THEN <<>>
    ELSE <<FromTimestamp(FMin(acc.timestamps), tz), FromTimestamp(FMax(acc.timestamps), tz)>>

\* The dictionary analyze_ping_file returns.
ResultOf(acc, has_timestamps, tz) ==
    [stats          |-> Stats(acc),
     time_range     |-> TimeRange(acc, tz),
     has_timestamps |-> has_timestamps]

\* The whole loop over lines.
RECURSIVE ParseFrom(_, _, _)
ParseFrom(acc, lines, has_timestamps) ==
    IF lines = <<>> THEN acc
    ELSE ParseFrom(LineStep(acc, lines[1], has_timestamps), Tail(lines), has_timestamps)

\* analyze_ping_file on a file that was read: an exception raised, or the
\* dictionary returned.
analyze_ping_file(content, zone) ==
    LET a == ParseFrom(EmptyAcc, content, HasTimestamps(content))
    IN  IF TimeRangeRaises(a, zone) THEN [raised |-> TRUE, result |-> <<>>]
        ELSE [raised |-> FALSE, result |-> <<ResultOf(a, HasTimestamps(content), zone)>>]


(***************************************************************************)
(* State.                                                                  *)
(***************************************************************************)
VARIABLES
    tz,              \* the time zone of the process (environment)
    \* one call of analyze_ping_file, stepped (SpecAnalyze)
    lines,           \* f.readlines() of the file being analyzed
    apc,             \* "open", "loop", "returned", "raised"; "idle" under Spec
    i,               \* index of the next line of the loop
    has_timestamps,
    acc,             \* ping_times, timestamps, sequences, total_pings
    result,          \* <<>> (None) or <<the returned dictionary>>
    \* main (Spec)
    argv,            \* sys.argv[1:]
    fs,              \* path -> what the file holds (a name of FileContents)
    pc,              \* "discover", "check", "analyze", "render", "exit"; "idle" under SpecAnalyze
    argi,            \* index of the next argument
    files,           \* the candidate list
    idx,             \* index of the next candidate to analyze
    results,         \* the results dict, in insertion order: <<[file, data], ...>>
    calls,           \* what each analyze_ping_file call of main did, in order
    stderr,          \* messages written to sys.stderr
    stdout,          \* <<>> or <<the sections of the printed report>>
    status           \* exit status: -1 while running, then 0 or 1

avars == <<lines, apc, i, has_timestamps, acc, result>>
mvars == <<argv, fs, pc, argi, files, idx, results, calls, stdout, status>>
vars == <<tz, avars, mvars, stderr>>

\* Messages on sys.stderr.
ReadError(f) == [msg |-> "Error reading file", arg |-> f]
DirWarning(a) == [msg |-> "Warning: No ping files found in directory", arg |-> a]
GlobWarning(a) == [msg |-> "Warning: No files found matching pattern", arg |-> a]
NoFilesError == [msg |-> "Error: No ping files found to analyze.", arg |-> ""]
NoDataError == [msg |-> "No valid ping data found in input files.", arg |-> ""]
Traceback == [msg |-> "Traceback (most recent call last)", arg |-> ""]

(***************************************************************************)
(* Inputs of SpecAnalyze.                                                  *)
(***************************************************************************)
Ts(v) == Tok("ts", v)
SeqTok(v) == Tok("seq", v)
TimeTok(v) == Tok("time", v)

\* The lines a file of SpecAnalyze is made of.
LineUniverse ==
    {<<>>,                                          \* ""
     <<Ws>>,                                        \* "   "
     <<Word, SeqTok(1), TimeTok(2)>>,               \* "64 bytes: icmp_seq=1 time=2 ms"
     <<Word, SeqTok(2), TimeTok(11)>>,              \* "64 bytes: icmp_seq=2 time=11 ms"
     <<Word, SeqTok(3), Word>>,                     \* "From gw icmp_seq=3 Unreachable"
     <<Ts(5), Word, SeqTok(1), TimeTok(2)>>,        \* "[5.0] 64 bytes: icmp_seq=1 time=2 ms"
     <<Ts(6), Word, SeqTok(2), TimeTok(11)>>,       \* "[6.0] 64 bytes: icmp_seq=2 time=11 ms"
     <<Ts(6), Word, SeqTok(3), Word>>,              \* "[6.0] From gw icmp_seq=3 Unreachable"
     <<Ws, Ts(5), Word, SeqTok(1), TimeTok(2)>>,    \* " [5.0] 64 bytes: icmp_seq=1 time=2 ms"
     <<Ts(20), Word>>,                              \* "[20.0] ...", past the year 9999
     <<Word, Tok("seq_bare", 0), TimeTok(2)>>,      \* "icmp_seq=? time=2 ms"
     <<Word, SeqTok(4), Tok("time_bare", 0)>>,      \* "icmp_seq=4 time=n/a"
     <<Word, TimeTok(2)>>}                          \* "rtt time=2 ms"

\* A zone of constant offset, and one whose clocks go back by 2 at instant 6.
FixedZone == [at |-> 0, before |-> 0, after |-> 0]
FallBackZone == [at |-> 6, before |-> 2, after |-> 0]
TimeZones == {FixedZone, FallBackZone}

IdleMain ==
    /\ argv = <<>> /\ fs = <<>> /\ pc = "idle" /\ argi = 0 /\ files = <<>>
    /\ idx = 0 /\ results = <<>> /\ calls = <<>> /\ stderr = <<>>
    /\ stdout = <<>> /\ status = -1

IdleAnalyze ==
    /\ lines = <<>> /\ apc = "idle" /\ i = 0 /\ has_timestamps = FALSE
    /\ acc = EmptyAcc /\ result = <<>>

InitAnalyze ==
    /\ tz \in TimeZones
    /\ lines \in UNION {[1..n -> LineUniverse] : n \in 0..MaxLines}
    /\ apc = "open" /\ i = 0 /\ has_timestamps = FALSE
    /\ acc = EmptyAcc /\ result = <<>>
    /\ IdleMain

(***************************************************************************)
(* analyze_ping_file, step by step.                                        *)
(***************************************************************************)
\* Lines 11-13, 29-35: the file is read, has_timestamps computed.
ReadLines ==
    /\ apc = "open"
    /\ has_timestamps' = HasTimestamps(lines)
    /\ acc' = EmptyAcc
    /\ i' = 1
    /\ apc' = "loop"
    /\ UNCHANGED <<tz, lines, result, mvars, stderr>>

\* Lines 14-16: open or readlines raised.
ReadFails ==
    /\ apc = "open"
    /\ stderr' = Append(stderr, ReadError("file"))
    /\ result' = <<>>
    /\ apc' = "returned"
    /\ UNCHANGED <<tz, lines, i, has_timestamps, acc, mvars>>

\* Lines 37-58: one iteration of the loop.
ParseLine ==
    /\ apc = "loop"
    /\ i <= Len(lines)
    /\ acc' = LineStep(acc, lines[i], has_timestamps)
    /\ i' = i + 1
    /\ UNCHANGED <<tz, lines, apc, has_timestamps, result, mvars, stderr>>

\* Lines 60-97: statistics, time range, return (or the exception of
\* datetime.fromtimestamp leaves the function).
Finish ==
    /\ apc = "loop"
    /\ i > Len(lines)
    /\ IF TimeRangeRaises(acc, tz)
       THEN apc' = "raised" /\ result' = result
       ELSE apc' = "returned" /\ result' = <<ResultOf(acc, has_timestamps, tz)>>
    /\ UNCHANGED <<tz, lines, i, has_timestamps, acc, mvars, stderr>>

NextAnalyze == ReadLines \/ ReadFails \/ ParseLine \/ Finish

SpecAnalyze == InitAnalyze /\ [][NextAnalyze]_vars


(***************************************************************************)
(* The file system main runs on.  The current directory holds a.txt,       *)
(* b.log, n.dat and the directories d (a.txt, e.log) and m (empty).        *)
(***************************************************************************)
Paths == {"a.txt", "b.log", "n.dat", "d/a.txt", "d/e.log"}
Dirs == {"d", "m"}
\* The arguments main is given: directories and patterns.
Args == {"d", "m", "*", "z*"}

\* os.path.basename
Basename(f) == CASE f = "d/a.txt" -> "a.txt"
                 [] f = "d/e.log" -> "e.log"
                 [] OTHER -> f

\* f.endswith(('.txt', '.log'))
EndsWithTxtOrLog(f) == f \in {"a.txt", "b.log", "d/a.txt", "d/e.log"}

\* os.path.isdir
IsDir(a) == a \in Dirs

\* glob.glob(os.path.join(arg, "**", pattern), recursive=True)
GlobUnder(dir, pattern) ==
    CASE dir = "d" /\ pattern = "*.txt" -> <<"d/a.txt">>
      [] dir = "d" /\ pattern = "*.log" -> <<"d/e.log">>
      [] OTHER -> <<>>

\* glob.glob(pattern) from the current directory.
Glob(pattern) ==
    CASE pattern = "*"     -> <<"a.txt", "b.log", "d", "m", "n.dat">>
      [] pattern = "*.txt" -> <<"a.txt">>
      [] pattern = "*.log" -> <<"b.log">>
      [] OTHER -> <<>>

\* The patterns of a directory argument and of the default search, in order.
\* (mutant: the two patterns in the other order)
Patterns_LogFirst == <<"*.log", "*.txt">>
Patterns == <<"*.txt", "*.log">>

\* What a file holds.
PingLine == <<PingWord, Word>>                         \* "PING host (1.2.3.4) 56 data bytes"
PingLog == <<PingLine, <<Word, SeqTok(1), TimeTok(2)>>>>
BadStamp == <<PingLine, <<Ts(20), Word, SeqTok(1), TimeTok(2)>>>>
LatePing == [j \in 1..11 |-> IF j = 11 THEN PingLine ELSE <<Word>>]
\* The file system maps a path to the name of what it holds.
FileContents == {"PingLog", "BadStamp", "LatePing"}
ReadLinesOf(name) == CASE name = "PingLog" -> PingLog
                       [] name = "BadStamp" -> BadStamp
                       [] name = "LatePing" -> LatePing

\* is_ping_file reads this many lines.
SniffLines == 10

\* 'ping' in ''.join(first SniffLines lines).lower()
is_ping_file(content) ==
    \E j \in 1..Len(content) :
        /\ j <= SniffLines
        /\ FirstOf(content[j], {"ping"}, 1) # 0

\* [f for f in matched if is_ping_file(f)], where reading the files at the
\* indices in failed raises: the accepted files and the errors printed.
RECURSIVE SniffFrom(_, _, _, _)
SniffFrom(matched, failed, j, content) ==
    IF j > Len(matched) THEN [ping_files |-> <<>>, errors |-> <<>>]
    ELSE LET rest == SniffFrom(matched, failed, j + 1, content)
         IN  IF j \in failed
             THEN [ping_files |-> rest.ping_files,
                   errors |-> <<ReadError(matched[j])>> \o rest.errors]
             ELSE IF is_ping_file(ReadLinesOf(content[matched[j]]))
             THEN [ping_files |-> <<matched[j]>> \o rest.ping_files, errors |-> rest.errors]
             ELSE rest

\* results[file] = result on a dict kept in insertion order.
\* (mutant: a list of pairs appended to, not a dict)
DictSet_AlwaysAppend(d, file, data) == Append(d, [file |-> file, data |-> data])
DictSet(d, file, data) ==
    IF \E k \in 1..Len(d) : d[k].file = file
    THEN [k \in 1..Len(d) |-> IF d[k].file = file THEN [file |-> file, data |-> data] ELSE d[k]]
    ELSE Append(d, [file |-> file, data |-> data])

\* generate_markdown: one section per item of results, in the dict's order;
\* a section is its heading (the base name), its time range and the rows of
\* its table.
generate_markdown(d) ==
    [k \in 1..Len(d) |-> [heading    |-> Basename(d[k].file),
                          time_range |-> d[k].data.time_range,
                          rows       |-> d[k].data.stats]]

(***************************************************************************)
(* main.                                                                   *)
(***************************************************************************)
Init ==
    /\ tz = FixedZone
    /\ IdleAnalyze
    /\ argv \in UNION {[1..n -> Args] : n \in 0..MaxArgs}
    /\ fs \in [Paths -> FileContents]
    /\ fs["n.dat"] = "PingLog"
    /\ fs["b.log"] # "BadStamp"
    /\ fs["d/a.txt"] # "BadStamp"
    /\ pc = "discover" /\ argi = 1 /\ files = <<>> /\ idx = 0
    /\ results = <<>> /\ calls = <<>> /\ stderr = <<>> /\ stdout = <<>>
    /\ status = -1

Indices(seq) == 1..Len(seq)

AfterArg == IF argi + 1 > Len(argv) THEN "check" ELSE "discover"

\* Lines 175-182: no argument, the default search of the current directory.
DefaultSearch ==
    /\ pc = "discover"
    /\ argv = <<>>
    /\ \E f1 \in SUBSET Indices(Glob(Patterns[1])), f2 \in SUBSET Indices(Glob(Patterns[2])) :
          LET s1 == SniffFrom(Glob(Patterns[1]), f1, 1, fs)
              s2 == SniffFrom(Glob(Patterns[2]), f2, 1, fs)
          IN  /\ files' = s1.ping_files \o s2.ping_files
              /\ stderr' = stderr \o s1.errors \o s2.errors
    /\ pc' = "check"
    /\ UNCHANGED <<tz, avars, argv, fs, argi, idx, results, calls, stdout, status>>

\* Lines 156-164: a directory argument.
DirectoryArg ==
    /\ pc = "discover"
    /\ argi <= Len(argv)
    /\ IsDir(argv[argi])
    /\ LET m1 == GlobUnder(argv[argi], Patterns[1])
           m2 == GlobUnder(argv[argi], Patterns[2])
       IN  \E f1 \in SUBSET Indices(m1), f2 \in SUBSET Indices(m2) :
              LET s1 == SniffFrom(m1, f1, 1, fs)
                  s2 == SniffFrom(m2, f2, 1, fs)
                  fl == files \o s1.ping_files \o s2.ping_files
              IN  /\ files' = fl
                  /\ stderr' = stderr \o s1.errors \o s2.errors \o
                               (IF fl = <<>> THEN <<DirWarning(argv[argi])>> ELSE <<>>)
    /\ argi' = argi + 1
    /\ pc' = AfterArg
    /\ UNCHANGED <<tz, avars, argv, fs, idx, results, calls, stdout, status>>

\* Lines 165-173: any other argument is a pattern.
PatternArg ==
    /\ pc = "discover"
    /\ argi <= Len(argv)
    /\ ~IsDir(argv[argi])
    /\ LET matched == Glob(argv[argi])
           named   == SelectSeq(matched, EndsWithTxtOrLog)
       IN  IF matched # <<>>
           THEN \E f \in SUBSET Indices(named) :
                   LET s == SniffFrom(named, f, 1, fs)
                   IN  /\ files' = files \o s.ping_files
                       /\ stderr' = stderr \o s.errors
           ELSE /\ files' = files
                /\ stderr' = Append(stderr, GlobWarning(argv[argi]))
    /\ argi' = argi + 1
    /\ pc' = AfterArg
    /\ UNCHANGED <<tz, avars, argv, fs, idx, results, calls, stdout, status>>

\* Lines 184-186: no candidate, exit 1.
NoFiles ==
    /\ pc = "check"
    /\ files = <<>>
    /\ stderr' = Append(stderr, NoFilesError)
    /\ status' = 1
    /\ pc' = "exit"
    /\ UNCHANGED <<tz, avars, argv, fs, argi, files, idx, results, calls, stdout>>

\* Lines 188-190: the loop over the candidates starts.
StartAnalysis ==
    /\ pc = "check"
    /\ files # <<>>
    /\ idx' = 1
    /\ pc' = "analyze"
    /\ UNCHANGED <<tz, avars, argv, fs, argi, files, results, calls, stdout, status, stderr>>

\* Lines 191-193 with 14-16: the candidate cannot be read.
AnalyzeUnreadable ==
    /\ pc = "analyze"
    /\ idx <= Len(files)
    /\ stderr' = Append(stderr, ReadError(files[idx]))
    /\ calls' = Append(calls, [file |-> files[idx], outcome |-> "none"])
    /\ idx' = idx + 1
    /\ UNCHANGED <<tz, avars, argv, fs, pc, argi, files, results, stdout, status>>

\* Lines 191-193: the candidate is read and analyzed; an exception of
\* analyze_ping_file ends the process with a traceback and exit status 1.
AnalyzeFile ==
    /\ pc = "analyze"
    /\ idx <= Len(files)
    /\ LET out == analyze_ping_file(ReadLinesOf(fs[files[idx]]), tz)
       IN  IF out.raised
           THEN /\ stderr' = Append(stderr, Traceback)
                /\ calls' = Append(calls, [file |-> files[idx], outcome |-> "raised"])
                /\ status' = 1
                /\ pc' = "exit"
                /\ UNCHANGED <<results, idx>>
           ELSE /\ results' = DictSet(results, files[idx], out.result[1])
                /\ calls' = Append(calls, [file |-> files[idx], outcome |-> "result"])
                /\ idx' = idx + 1
                /\ UNCHANGED <<stderr, status, pc>>
    /\ UNCHANGED <<tz, avars, argv, fs, argi, files, stdout>>

\* (mutant: the report printed before results is tested)
Render_PrintsFirst ==
    /\ pc = "analyze"
    /\ idx > Len(files)
    /\ stdout' = Append(stdout, generate_markdown(results))
    /\ IF results # <<>>
       THEN status' = 0 /\ stderr' = stderr
       ELSE status' = 1 /\ stderr' = Append(stderr, NoDataError)
    /\ pc' = "exit"
    /\ UNCHANGED <<tz, avars, argv, fs, argi, files, idx, results, calls>>

\* Lines 195-200: the report is printed, or there is none and exit 1.
Render ==
    /\ pc = "analyze"
    /\ idx > Len(files)
    /\ IF results # <<>>
       THEN /\ stdout' = Append(stdout, generate_markdown(results))
            /\ status' = 0
            /\ stderr' = stderr
       ELSE /\ stderr' = Append(stderr, NoDataError)
            /\ status' = 1
            /\ stdout' = stdout
    /\ pc' = "exit"
    /\ UNCHANGED <<tz, avars, argv, fs, argi, files, idx, results, calls>>

Next ==
    \/ DefaultSearch \/ DirectoryArg \/ PatternArg
    \/ NoFiles \/ StartAnalysis
    \/ AnalyzeUnreadable \/ AnalyzeFile \/ Render

Spec == Init /\ [][Next]_vars


(***************************************************************************)
(* Properties of analyze_ping_file, checked under SpecAnalyze.             *)
(***************************************************************************)
\* The loop over the lines has ended (and what follows it may have run).
LoopDone == apc \in {"loop", "returned", "raised"} /\ i > Len(lines)
Returned == apc = "returned" /\ result # <<>>

\* The line holds the text "icmp_seq=" / "icmp_seq=<int>" / "time=<float>" /
\* starts with "[<digits>.<digits>]", read off the tokens.
HoldsSeqMarker(l) == \E j \in 1..Len(l) : l[j].k \in {"seq", "seq_bare"}
HoldsSeqNumber(l) == \E j \in 1..Len(l) : l[j].k = "seq"
HoldsTime(l) == \E j \in 1..Len(l) : l[j].k = "time"
NonBlank(l) == \E j \in 1..Len(l) : l[j].k # "ws"
StartsWithStamp(l) == Len(l) > 0 /\ l[1].k = "ts"
HoldsSample(l) == NonBlank(l) /\ HoldsSeqNumber(l) /\ HoldsTime(l)
IndexOfKind(l, kind) == (CHOOSE j \in 1..Len(l) : l[j].k = kind /\ \A h \in 1..(j - 1) : l[h].k # kind)

ProbeLineCount == Cardinality({j \in 1..Len(lines) : NonBlank(lines[j]) /\ HoldsSeqMarker(lines[j])})
SampleLines == SelectSeq(lines, HoldsSample)
StampLines == SelectSeq(lines, LAMBDA l : NonBlank(l) /\ StartsWithStamp(l))
Hundred == IntToFloat(100)

\* C5: packetLossPercent is in [0, 100] when totalProbes > 0 and exactly 0
\* when totalProbes = 0; the number of samples never exceeds the raw probe
\* counter.
C5_PacketLossInRange ==
    /\ Len(acc.ping_times) <= acc.total_pings
    /\ Returned =>
          LET st == result[1].stats
          IN  /\ st.total_pings > 0 => FLe(FZero, st.packet_loss) /\ FLe(st.packet_loss, Hundred)
              /\ st.total_pings = 0 => st.packet_loss = FZero

\* A file with three probes of which one has a reply: a loss strictly
\* between 0 and 100.
C5_Witness ==
    /\ Returned
    /\ result[1].stats.total_pings = 3
    /\ Len(acc.ping_times) = 1
    /\ result[1].stats.packet_loss # FZero
    /\ result[1].stats.packet_loss # Hundred

C7_MinAvgMax ==
    Returned =>
        LET st == result[1].stats
        IN  IF acc.ping_times # <<>>
            THEN FLe(st.min, st.avg) /\ FLe(st.avg, st.max)
            ELSE st.min = FZero /\ st.avg = FZero /\ st.max = FZero /\ st.mdev = FZero

\* The time stamps of the non-blank lines that start with one, in seconds.
Stamps == {StampLines[j][1].v : j \in 1..Len(StampLines)}
Earliest == CHOOSE x \in Stamps : \A y \in Stamps : x <= y
Latest == CHOOSE x \in Stamps : \A y \in Stamps : y <= x
LocalOffset(secs) == IF secs < tz.at THEN tz.before ELSE tz.after

\* What every reading of C10 shares: timeRange is present exactly when
\* hasTimestamps is, which is exactly when a non-blank line starts with a
\* bracketed time stamp, and every such line contributed its stamp, sample or
\* not.
TimeRangePresence ==
    /\ LoopDone => /\ Len(acc.timestamps) = Len(StampLines)
                   /\ \A j \in 1..Len(StampLines) :
                         Seconds(acc.timestamps[j]) = StampLines[j][1].v
    /\ Returned => /\ (result[1].time_range # <<>>) <=> result[1].has_timestamps
                   /\ result[1].has_timestamps <=> (Stamps # {})

\* C10 as stated: timeRange is present iff hasTimestamps, every stamped
\* non-blank line contributes, and its first component is less than or equal
\* to its second.
C10_TimeRangeOrdered ==
    /\ TimeRangePresence
    /\ Returned /\ result[1].time_range # <<>> =>
          result[1].time_range[1].wall <= result[1].time_range[2].wall

\* C10 amended: the components are the local-time readings of the earliest
\* and of the latest stamp; the first is less than or equal to the second
\* whenever the local UTC offset at the latest stamp is not below the one at
\* the earliest.
C10_TimeRangeLocal ==
    /\ TimeRangePresence
    /\ Returned /\ Stamps # {} =>
          LET tr == result[1].time_range
          IN  /\ tr[1].wall = Earliest + LocalOffset(Earliest)
              /\ tr[2].wall = Latest + LocalOffset(Latest)
              /\ LocalOffset(Earliest) <= LocalOffset(Latest) => tr[1].wall <= tr[2].wall

\* A result with a time range whose stamps come from a line that gave a
\* sample and from one that gave none, in the zone whose clocks go back.
C10_Witness ==
    /\ Returned
    /\ result[1].time_range # <<>>
    /\ tz = FallBackZone
    /\ Stamps = {5, 6}
    /\ \E j \in 1..Len(lines) : StartsWithStamp(lines[j]) /\ ~HoldsSample(lines[j])
    /\ \E j \in 1..Len(lines) : StartsWithStamp(lines[j]) /\ HoldsSample(lines[j])


(***************************************************************************)
(* Properties of main, checked under Spec.                                 *)
(***************************************************************************)
Exited == pc = "exit"
ReadErrorSeen == \E k \in 1..Len(stderr) : stderr[k].msg = "Error reading file"
Succeeded == SelectSeq(calls, LAMBDA c : c.outcome = "result")
SucceededPaths == {Succeeded[k].file : k \in 1..Len(Succeeded)}
\* The index in calls of the first successful analysis of path p.
FirstSuccess(p) ==
    CHOOSE k \in 1..Len(calls) :
        /\ calls[k].file = p /\ calls[k].outcome = "result"
        /\ \A h \in 1..(k - 1) : ~(calls[h].file = p /\ calls[h].outcome = "result")

\* C1: main ends with exit status 1 exactly when the candidate list is empty
\* or no candidate produced an analysis; in every other run the rendered
\* report is printed and the exit status is 0.
C1_ExitStatus ==
    Exited =>
        /\ status = 1 <=> (files = <<>> \/ results = <<>>)
        /\ status # 1 => status = 0 /\ stdout = <<generate_markdown(results)>>

\* C2: an argument, at any position, that is a directory yielding no accepted
\* file, or a pattern expanding to no match, gets a warning naming it on
\* stderr, and the next argument (or the check of the list) follows.
C2_WarningForEveryEmptyArgument ==
    [][(pc = "discover" /\ argi <= Len(argv) /\ argi' = argi + 1) =>
          LET a == argv[argi]
          IN  /\ (IsDir(a) /\ files' = files) =>
                    stderr' # <<>> /\ stderr'[Len(stderr')] = DirWarning(a)
              /\ (~IsDir(a) /\ Glob(a) = <<>>) =>
                    stderr' # <<>> /\ stderr'[Len(stderr')] = GlobWarning(a)
              /\ pc' \in {"discover", "check"}]_vars

\* C3: a file that cannot be read, at the sniffing or at the parsing step, is
\* reported on stderr and left out of the results, and every other candidate
\* is still parsed and, when readable, included in the report.
C3_ReadFailureLeavesTheRestReported ==
    (Exited /\ ReadErrorSeen /\ files # <<>>) =>
        /\ Len(calls) = Len(files)
        /\ \A k \in 1..Len(calls) :
              calls[k].outcome = "none" =>
                  /\ \E h \in 1..Len(stderr) : stderr[h] = ReadError(calls[k].file)
                  /\ calls[k].file \notin SucceededPaths =>
                        \A h \in 1..Len(results) : results[h].file # calls[k].file
        /\ \A k \in 1..Len(calls) :
              calls[k].outcome = "result" =>
                  /\ stdout # <<>>
                  /\ \E h \in 1..Len(stdout[1]) : stdout[1][h].heading = Basename(calls[k].file)

\* C4: in a run that ends with exit status 1 nothing is ever written to
\* standard output.
C4_NoOutputOnFailure ==
    /\ status = 1 => stdout = <<>>
    /\ stdout # <<>> => status = 0

\* Candidates existed, every one was unreadable: exit status 1.
C4_Witness ==
    /\ Exited /\ status = 1
    /\ Len(files) >= 2
    /\ Len(calls) = Len(files)
    /\ \A k \in 1..Len(calls) : calls[k].outcome = "none"
    /\ results = <<>>

\* What discovery finds for one argument, in order: for a directory the
\* *.txt matches, then the *.log matches.
DiscoveredBy(a) ==
    IF a \in Dirs THEN GlobUnder(a, "*.txt") \o GlobUnder(a, "*.log")
    ELSE SelectSeq(Glob(a), EndsWithTxtOrLog)
RECURSIVE DiscoveryOrder(_)
DiscoveryOrder(as) ==
    IF as = <<>> THEN <<>> ELSE DiscoveredBy(as[1]) \o DiscoveryOrder(Tail(as))
FullOrder == IF argv = <<>> THEN Glob("*.txt") \o Glob("*.log") ELSE DiscoveryOrder(argv)

\* xs is ys with elements left out.
RECURSIVE IsSubsequence(_, _)
IsSubsequence(xs, ys) ==
    IF xs = <<>> THEN TRUE
    ELSE IF ys = <<>> THEN FALSE
    ELSE IF xs[1] = ys[1] THEN IsSubsequence(Tail(xs), Tail(ys))
    ELSE IsSubsequence(xs, Tail(ys))

\* xs without the repetitions of its elements.
RECURSIVE FirstOccurrences(_, _)
FirstOccurrences(xs, seen) ==
    IF xs = <<>> THEN <<>>
    ELSE IF xs[1] \in seen THEN FirstOccurrences(Tail(xs), seen)
    ELSE <<xs[1]>> \o FirstOccurrences(Tail(xs), seen \cup {xs[1]})

\* C8: the report has a section for each analyzed file that produced a
\* result, and only for those, in the order the files were processed, which
\* is the order of the candidate list: argument order, and within a directory
\* or the default search the *.txt matches before the *.log matches.
C8_SectionsInProcessingOrder ==
    /\ IsSubsequence(files, FullOrder)
    /\ \A k \in 1..Len(calls) : calls[k].file = files[k]
    /\ (Exited /\ status = 0) =>
          /\ Len(stdout) = 1
          /\ LET order == FirstOccurrences([k \in 1..Len(Succeeded) |-> Succeeded[k].file], {})
             IN  [k \in 1..Len(stdout[1]) |-> stdout[1][k].heading]
                    = [k \in 1..Len(order) |-> Basename(order[k])]

\* A report of the directory's *.txt file, then its *.log file, while another
\* candidate was unreadable and has no section.
C8_Witness ==
    /\ Exited /\ status = 0
    /\ Len(stdout[1]) = 2
    /\ results[1].file = "d/a.txt" /\ results[2].file = "d/e.log"
    /\ \E k \in 1..Len(calls) : calls[k].outcome = "none" /\ calls[k].file \notin SucceededPaths

\* C9: a path discovered several times is analyzed once per occurrence and
\* has exactly one section, at the position of its first successful
\* occurrence; the report has as many sections as there are distinct paths
\* that produced a result.
C9_OneSectionPerPath ==
    (Exited /\ status = 0) =>
        /\ Len(stdout) = 1
        /\ Len(stdout[1]) = Cardinality(SucceededPaths)
        /\ \A p \in SucceededPaths :
              LET at == 1 + Cardinality({q \in SucceededPaths : FirstSuccess(q) < FirstSuccess(p)})
              IN  /\ results[at].file = p
                  /\ stdout[1][at].heading = Basename(p)
                  /\ Cardinality({k \in 1..Len(results) : results[k].file = p}) = 1

\* A path analyzed twice with a result both times, and another whose first
\* occurrence was unreadable and whose second gave the result.
C9_Witness ==
    /\ Exited /\ status = 0
    /\ Len(files) > Len(stdout[1])
    /\ \E j, k \in 1..Len(calls) :
          j < k /\ calls[j].file = calls[k].file
                /\ calls[j].outcome = "result" /\ calls[k].outcome = "result"
    /\ \E j, k \in 1..Len(calls) :
          j < k /\ calls[j].file = calls[k].file
                /\ calls[j].outcome = "none" /\ calls[k].outcome = "result"

=============================================================================
